---- MODULE Spec2Model ----
(***************************************************************************)
(* Model of the LinkedIn auto agent: the text generator's model fallback   *)
(* loop (modules/generator.py), the image provider's acquisition chain     *)
(* (modules/image_provider.py), the LinkedIn client's register / upload /  *)
(* create-post protocol (modules/linkedin.py) and the two entry points of  *)
(* main.py (generate_draft, publish_post).                                 *)
(*                                                                         *)
(* Strings are sequences of characters; a character is a one-element TLA+  *)
(* string, and a multi-character literal of the source that the code only  *)
(* ever handles as a whole (a tag, a URN prefix segment) is one element.   *)
(***************************************************************************)
EXTENDS Integers, Sequences, FiniteSets, TLC

VARIABLES
    pc,             \* position of the running entry point
    author_urn,     \* LinkedInClient.author_urn
    text,           \* the text handed to the client (final_text)
    image_exists,   \* os.path.exists(image_path) in publish_post
    requests,       \* HTTP requests issued to LinkedIn so far, in order
    responses,      \* the outcome of each of those requests, in order
    reg_info,       \* post_image_and_text: upload_url and image_urn
    post_id,        \* the value create_post returned
    error,          \* the exception that ended the run (<<>> when none)
    gen_idx,        \* generate_full_content: index of the next candidate model
    gen_log,        \* generate_full_content: attempts made, in order
    last_exception, \* generate_full_content: last_exception
    content,        \* generate_full_content: the returned dict
    bold_in,        \* _convert_markdown_bold: the text it is first applied to
    bold_out,       \* _convert_markdown_bold: the results of its applications, in order
    client,         \* ImageProvider.client is set
    img_idx,        \* generate_and_save: index of the next candidate
    img_url,        \* _search_via_duckduckgo: index img_url was read from (0: unbound)
    old_file,       \* bytes stored at save_path before generate_and_save
    writable,       \* save_path can be created and written during the call
    results,        \* the list the image search returned
    img_log,        \* image requests issued, in order
    image_file,     \* bytes stored at save_path (NoFile when absent)
    success,        \* value generate_and_save returned
    draft_file      \* contents of the draft text file (NoFile when absent)

vars == <<pc, author_urn, text, image_exists, requests, responses, reg_info, post_id, error,
          gen_idx, gen_log, last_exception, content, bold_in, bold_out,
          client, img_idx, img_url, old_file, writable, results, img_log, image_file,
          success,
          draft_file>>

publishVars == <<author_urn, text, image_exists, requests, responses, reg_info, post_id>>
genVars == <<gen_idx, gen_log, last_exception, content, bold_in, bold_out>>
imgVars == <<client, img_idx, img_url, old_file, writable, results, img_log, image_file,
            success>>

None == "None"
NoFile == <<"no file">>

-----------------------------------------------------------------------------
(* Bounds of the model *)

MaxIdLen == 1      \* characters in the identifier part of an author URN
MaxTextLen == 2    \* characters in a text handed to create_post
MaxExtraResults == 1 \* search results beyond the five the code looks at
MaxGenLen == 2       \* characters in an unstructured provider response
MaxDraftResults == 2 \* search results in a run of generate_draft
MaxPostLen == 2      \* characters in a short text handed to create_post
MaxOver == 1         \* characters by which a long text exceeds the hard limit
MaxMoreWords == 2    \* words by which an emphasized phrase exceeds the bold limit
MaxBoldLen == 6      \* characters in a short text given to the emphasis conversion
MaxBodyLines == 3    \* lines in the body of a draft that is read back

-----------------------------------------------------------------------------
(* Python string primitives over sequences *)

SeqsUpTo(S, n) == UNION {[1..k -> S] : k \in 0..n}

\* s.startswith(p)
StartsWith(s, p) == Len(s) >= Len(p) /\ SubSeq(s, 1, Len(p)) = p

\* p in s
Contains(s, p) == \E i \in 1..(Len(s) - Len(p) + 1) : SubSeq(s, i, i + Len(p) - 1) = p

\* s.replace(old, new) for a non-empty old: leftmost, non-overlapping
RECURSIVE ReplaceScan(_, _, _)
ReplaceScan(s, old, new) ==
    IF Len(s) < Len(old) THEN s
    ELSE IF StartsWith(s, old)
         THEN new \o ReplaceScan(SubSeq(s, Len(old) + 1, Len(s)), old, new)
         ELSE <<Head(s)>> \o ReplaceScan(Tail(s), old, new)

\* no occurrence of old lies across the boundary between s[m] and s[m+1]
NoStraddle(s, old, m) ==
    \A i \in (m - Len(old) + 2)..m :
        \/ i < 1
        \/ i + Len(old) - 1 > Len(s)
        \/ SubSeq(s, i, i + Len(old) - 1) # old

\* a boundary near the middle of s that no occurrence of old lies across
\* (0 when there is none among the Len(old) + 1 boundaries tried)
SafeCut(s, old) ==
    LET half == Len(s) \div 2
        cuts == {m \in half..(half + Len(old)) :
                    m >= 1 /\ m < Len(s) /\ NoStraddle(s, old, m)}
    IN IF cuts = {} THEN 0 ELSE CHOOSE m \in cuts : \A n \in cuts : m <= n

\* the same scan, evaluated by halves: the scan of s is the scan of s[1..m]
\* followed by the scan of s[m+1..] whenever no occurrence lies across m
RECURSIVE Replace(_, _, _)
Replace(s, old, new) ==
    LET m == SafeCut(s, old)
    IN IF Len(s) <= 2 * Len(old) \/ m = 0
       THEN ReplaceScan(s, old, new)
       ELSE Replace(SubSeq(s, 1, m), old, new)
                \o Replace(SubSeq(s, m + 1, Len(s)), old, new)

-----------------------------------------------------------------------------
(* modules/linkedin.py: LinkedInClient *)

AccessToken == "token"
UploadUrl == "https://upload.example/one-time"
ImageUrn == "urn:li:image:1"

MemberPrefix == <<"urn", ":", "li", ":", "member", ":">>
PersonPrefix == <<"urn", ":", "li", ":", "person", ":">>
OrganizationPrefix == <<"urn", ":", "li", ":", "organization", ":">>

IdChars == {"7"}
Ids == SeqsUpTo(IdChars, MaxIdLen) \ {<<>>}

\* The author URNs a deployment may configure (LINKEDIN_AUTHOR_URN): the member,
\* person and organization forms, a bare identifier, and forms in which the
\* member prefix occurs again after the first prefix.
AuthorUrns ==
    {p \o id : p \in {MemberPrefix, PersonPrefix, OrganizationPrefix, <<>>}, id \in Ids}
    \cup {MemberPrefix \o MemberPrefix \o id : id \in Ids}
    \cup {PersonPrefix \o MemberPrefix \o id : id \in Ids}

\* self.headers, built in __init__
Headers(access_token) ==
    { <<"Authorization", <<"Bearer", access_token>>>>,
      <<"Content-Type", <<"application/json; charset=utf-8">>>>,
      <<"LinkedIn-Version", <<"202501">>>>,
      <<"X-Restli-Protocol-Version", <<"2.0.0">>>> }

\* the headers of the binary upload
UploadHeadersWithBearer(access_token) ==
    Headers(access_token) \cup {<<"Content-Type", <<"application/octet-stream">>>>}
UploadHeaders(access_token) == {<<"Content-Type", <<"application/octet-stream">>>>}

\* current_headers of create_post: a copy of self.headers plus Content-Length
PostHeaders(access_token) ==
    Headers(access_token) \cup {<<"Content-Length", <<"len(payload)">>>>}

\* register_image: owner_urn
OwnerUrn(urn) ==
    IF Contains(urn, MemberPrefix) THEN Replace(urn, MemberPrefix, PersonPrefix) ELSE urn

\* create_post: author_urn
AuthorUrnUnrewritten(urn) == urn
AuthorUrn(urn) ==
    IF Contains(urn, MemberPrefix) THEN Replace(urn, MemberPrefix, PersonPrefix) ELSE urn

\* status checks of the three steps
RegisterOkAny(status) == TRUE
RegisterOk(status) == status \in {200, 201}
UploadOkAny(status) == TRUE
UploadOk(status) == status \in {200, 201}
PostOk(status) == status \in {200, 201}

EmDash == "U+2014"
EnDash == "U+2013"

\* create_post step 1: line endings and dashes
NormalizeTextCrOnly(t) ==
    Replace(Replace(Replace(t, <<"\r">>, <<"\n">>), <<EmDash>>, <<"-">>), <<EnDash>>, <<"-">>)
NormalizeText(t) ==
    Replace(Replace(Replace(Replace(t, <<"\r", "\n">>, <<"\n">>),
                            <<"\r">>, <<"\n">>),
                    <<EmDash>>, <<"-">>),
            <<EnDash>>, <<"-">>)

special_chars == <<"(", ")", "[", "]", "{", "}", "<", ">", "@", "|", "~", "_">>

RECURSIVE EscapeFrom(_, _)
EscapeFrom(t, i) ==
    IF i > Len(special_chars) THEN t
    ELSE EscapeFrom(Replace(t, <<special_chars[i]>>, <<"\\", special_chars[i]>>), i + 1)

\* _escape_linkedin_text
EscapeLinkedinText(t) == EscapeFrom(t, 1)

HardLimit == 3000
SafeMargin == 2900
ContinuationMarker == <<".", ".", ".", " ", "[", "F", "u", "l", "l", " ", "p", "o", "s", "t", " ", "o", "n", " ", "p", "r", "o", "f", "i", "l", "e", "]">>

\* create_post step 3: the hard limit check
TruncateFromLimit(t) ==
    IF Len(t) >= HardLimit THEN SubSeq(t, 1, SafeMargin) \o ContinuationMarker ELSE t
Truncate(t) ==
    IF Len(t) > HardLimit THEN SubSeq(t, 1, SafeMargin) \o ContinuationMarker ELSE t

\* the commentary create_post transmits for a text
Commentary(t) == Truncate(EscapeLinkedinText(NormalizeText(t)))

Request(kind, method, url, headers, urn, commentary, media) ==
    [kind |-> kind, method |-> method, url |-> url, headers |-> headers,
     urn |-> urn, commentary |-> commentary, media |-> media]

RegisterRequest(urn) ==
    Request("register", "POST", "https://api.linkedin.com/rest/images?action=initializeUpload",
            Headers(AccessToken), OwnerUrn(urn), <<>>, None)

UploadRequest(upload_url) ==
    Request("upload", "PUT", upload_url, UploadHeaders(AccessToken), <<>>, <<>>, None)

\* post_data of create_post; "content" is only present for a truthy image_urn
PostRequest(urn, t, image_urn) ==
    Request("create_post", "POST", "https://api.linkedin.com/rest/posts",
            PostHeaders(AccessToken), AuthorUrn(urn), Commentary(t),
            IF image_urn \in {None, ""} THEN None ELSE image_urn)

StatusCodes == {200, 201, 204, 400, 500}

\* Outcomes of one HTTP exchange: the transport raises, or a response arrives.
\* has_value: response.json() has value.uploadUrl and value.image.
\* restli, linkedin: the x-restli-id and x-linkedin-id response headers.
Response(raised, status, has_value, restli, linkedin) ==
    [raised |-> raised, status |-> status, has_value |-> has_value,
     restli |-> restli, linkedin |-> linkedin]

RegisterResponses ==
    {Response(TRUE, 0, FALSE, None, None)}
    \cup {Response(FALSE, s, v, None, None) : s \in StatusCodes, v \in BOOLEAN}

UploadResponses ==
    {Response(TRUE, 0, FALSE, None, None)}
    \cup {Response(FALSE, s, FALSE, None, None) : s \in StatusCodes}

PostResponses ==
    {Response(TRUE, 0, FALSE, None, None)}
    \cup {Response(FALSE, s, FALSE, None, None) : s \in StatusCodes \ {200, 201}}
    \cup {Response(FALSE, s, FALSE, r, l) :
            s \in {200, 201}, r \in {None, "", "abc123"}, l \in {None, "", "li456"}}

\* create_post: the identifier read from the response headers
PostIdSkipsLinkedin(resp) ==
    IF resp.restli \notin {None, ""} THEN resp.restli ELSE "Unknown ID"
PostId(resp) ==
    IF resp.restli \notin {None, ""} THEN resp.restli
    ELSE IF resp.linkedin # None THEN resp.linkedin
    ELSE "Unknown ID"

TextChars == {"a", "(", "\r", EmDash}
Texts == SeqsUpTo(TextChars, MaxTextLen)

\* texts handed to create_post: each character the sanitizing distinguishes
\* on its own, the short texts over one character of each kind, and long
\* texts around the hard limit
PostChars ==
    {special_chars[i] : i \in 1..Len(special_chars)}
        \cup {"\\", "\r", "\n", EmDash, EnDash, "a"}

MixChars == {"(", "_", "\\", "\r", "\n", EmDash, "a"}

Repeat(c, n) == [i \in 1..n |-> c]

LongTexts ==
    {Repeat("a", n) : n \in (HardLimit - 1)..(HardLimit + MaxOver)}
    \cup {Repeat("a", HardLimit + 500)}
    \cup {Repeat("(", n) : n \in (HardLimit \div 2)..(HardLimit \div 2 + MaxOver)}
    \cup {Repeat("a", SafeMargin - 1) \o <<"(">> \o Repeat("a", 200)}
    \cup {[i \in 1..(HardLimit + 2) |-> IF i % 2 = 1 THEN "\r" ELSE "\n"]}

PostTexts ==
    {<<c>> : c \in PostChars} \cup SeqsUpTo(MixChars, MaxPostLen) \cup LongTexts

NoRegInfo == [uploadUrl |-> None, image |-> None]

\* post_image_and_text step 1: register_image, then reading value.uploadUrl
\* and value.image out of its result
RegisterImage ==
    /\ pc = "publish_start"
    /\ image_exists
    /\ \E resp \in RegisterResponses :
         /\ requests' = Append(requests, RegisterRequest(author_urn))
         /\ responses' = Append(responses, resp)
         /\ IF resp.raised
            THEN pc' = "failed" /\ error' = <<"ConnectionError">> /\ UNCHANGED reg_info
            ELSE IF ~RegisterOk(resp.status)
            THEN /\ pc' = "failed"
                 /\ error' = <<"Failed to register image upload">>
                 /\ UNCHANGED reg_info
            ELSE IF ~resp.has_value
            THEN pc' = "failed" /\ error' = <<"KeyError">> /\ UNCHANGED reg_info
            ELSE /\ pc' = "registered"
                 /\ reg_info' = [uploadUrl |-> UploadUrl, image |-> ImageUrn]
                 /\ UNCHANGED error
    /\ UNCHANGED <<author_urn, text, image_exists, post_id>>
    /\ UNCHANGED <<genVars, imgVars, draft_file>>

\* post_image_and_text step 2: upload_image; opening the file precedes the PUT
UploadImage ==
    /\ pc = "registered"
    /\ \E can_open \in BOOLEAN, resp \in UploadResponses :
         IF ~can_open
         THEN /\ pc' = "failed"
              /\ error' = <<"OSError">>
              /\ UNCHANGED <<requests, responses>>
         ELSE /\ requests' = Append(requests, UploadRequest(reg_info.uploadUrl))
              /\ responses' = Append(responses, resp)
              /\ IF resp.raised
                 THEN pc' = "failed" /\ error' = <<"ConnectionError">>
                 ELSE IF ~UploadOk(resp.status)
                 THEN pc' = "failed" /\ error' = <<"Failed to upload image binary">>
                 ELSE pc' = "uploaded" /\ UNCHANGED error
    /\ UNCHANGED <<author_urn, text, image_exists, reg_info, post_id>>
    /\ UNCHANGED <<genVars, imgVars, draft_file>>

\* create_post: step 3 of post_image_and_text, or the whole text-only publish
CreatePost ==
    /\ \/ pc = "uploaded"
       \/ pc = "publish_start" /\ ~image_exists
    /\ requests' = Append(requests, PostRequest(author_urn, text, reg_info.image))
    /\ \E resp \in PostResponses :
         /\ responses' = Append(responses, resp)
         /\ IF resp.raised
            THEN pc' = "failed" /\ error' = <<"ConnectionError">> /\ UNCHANGED post_id
            ELSE IF ~PostOk(resp.status)
            THEN pc' = "failed" /\ error' = <<"Failed to publish post">> /\ UNCHANGED post_id
            ELSE pc' = "published" /\ post_id' = PostId(resp) /\ UNCHANGED error
    /\ UNCHANGED <<author_urn, text, image_exists, reg_info>>
    /\ UNCHANGED <<genVars, imgVars, draft_file>>

-----------------------------------------------------------------------------
(* modules/generator.py: ContentGenerator *)

model_fallbacks ==
    <<"nano-banana-pro-preview", "gemini-3-flash-preview",
      "gemini-2.0-flash-exp", "gemini-1.5-flash-latest">>

Whitespace == {" ", "\t", "\n", "\r"}

\* s.lstrip(), s.rstrip(), s.strip()
RECURSIVE LStrip(_)
LStrip(s) == IF s # <<>> /\ Head(s) \in Whitespace THEN LStrip(Tail(s)) ELSE s
RECURSIVE RStrip(_)
RStrip(s) ==
    IF s # <<>> /\ s[Len(s)] \in Whitespace THEN RStrip(SubSeq(s, 1, Len(s) - 1)) ELSE s
Strip(s) == RStrip(LStrip(s))

\* index of the first occurrence of sep in s (Contains(s, sep) holds)
FirstIndex(s, sep) ==
    CHOOSE i \in 1..(Len(s) - Len(sep) + 1) :
        /\ SubSeq(s, i, i + Len(sep) - 1) = sep
        /\ \A j \in 1..(i - 1) : SubSeq(s, j, j + Len(sep) - 1) # sep

\* s.split(sep): the list of pieces between the occurrences of sep
RECURSIVE Split(_, _)
Split(s, sep) ==
    IF ~Contains(s, sep) THEN <<s>>
    ELSE LET i == FirstIndex(s, sep)
         IN <<SubSeq(s, 1, i - 1)>> \o Split(SubSeq(s, i + Len(sep), Len(s)), sep)

\* len(s.split()): the number of whitespace-separated words
RECURSIVE WordCount(_)
WordCount(s) ==
    IF s = <<>> THEN 0
    ELSE IF Head(s) \in Whitespace THEN WordCount(Tail(s))
    ELSE IF Len(s) = 1 \/ s[2] \in Whitespace THEN 1 + WordCount(Tail(s))
    ELSE WordCount(Tail(s))

TOPIC_START == <<"[TOPIC_START]">>
TOPIC_END == <<"[TOPIC_END]">>
POST_START == <<"[POST_START]">>
POST_END == <<"[POST_END]">>
IMAGE_PROMPT_START == <<"[IMAGE_PROMPT_START]">>
IMAGE_PROMPT_END == <<"[IMAGE_PROMPT_END]">>

\* extract: IndexError arises only when tag_start does not occur
extractUntrimmed(tag_start, tag_end, t) ==
    LET parts == Split(t, tag_start)
    IN IF Len(parts) < 2 THEN <<>> ELSE Split(parts[2], tag_end)[1]
extract(tag_start, tag_end, t) ==
    LET parts == Split(t, tag_start)
    IN IF Len(parts) < 2 THEN <<>> ELSE Strip(Split(parts[2], tag_end)[1])

normal == <<
    "A", "B", "C", "D", "E", "F", "G", "H", "I", "J", "K", "L", "M", "N", "O", "P", "Q",
    "R", "S", "T", "U", "V", "W", "X", "Y", "Z", "a", "b", "c", "d", "e", "f", "g", "h",
    "i", "j", "k", "l", "m", "n", "o", "p", "q", "r", "s", "t", "u", "v", "w", "x", "y",
    "z", "0", "1", "2", "3", "4", "5", "6", "7", "8", "9" >>
bold == <<
    "bold-A", "bold-B", "bold-C", "bold-D", "bold-E", "bold-F", "bold-G", "bold-H",
    "bold-I", "bold-J", "bold-K", "bold-L", "bold-M", "bold-N", "bold-O", "bold-P",
    "bold-Q", "bold-R", "bold-S", "bold-T", "bold-U", "bold-V", "bold-W", "bold-X",
    "bold-Y", "bold-Z", "bold-a", "bold-b", "bold-c", "bold-d", "bold-e", "bold-f",
    "bold-g", "bold-h", "bold-i", "bold-j", "bold-k", "bold-l", "bold-m", "bold-n",
    "bold-o", "bold-p", "bold-q", "bold-r", "bold-s", "bold-t", "bold-u", "bold-v",
    "bold-w", "bold-x", "bold-y", "bold-z", "bold-0", "bold-1", "bold-2", "bold-3",
    "bold-4", "bold-5", "bold-6", "bold-7", "bold-8", "bold-9" >>

\* content.translate(str.maketrans(normal, bold))
Translate(s) ==
    [i \in 1..Len(s) |->
        IF \E k \in 1..Len(normal) : normal[k] = s[i]
        THEN bold[CHOOSE k \in 1..Len(normal) : normal[k] = s[i]]
        ELSE s[i]]

MaxBoldWords == 20

\* smart_replace: the replacement for the phrase a match encloses
smart_replace(phrase) ==
    IF WordCount(phrase) <= MaxBoldWords THEN Translate(phrase) ELSE phrase

\* the positions j at which a span opened at s[1..2] can close: s[j..j+1] is
\* "**" and no newline lies between ("." does not match a newline)
Closings(s) ==
    {j \in 3..(Len(s) - 1) :
        /\ s[j] = "*" /\ s[j + 1] = "*"
        /\ \A k \in 3..(j - 1) : s[k] # "\n"}

Min(S) == CHOOSE x \in S : \A y \in S : x <= y

\* _convert_markdown_bold: re.sub(r'\*\*(.*?)\*\*', smart_replace, text)
RECURSIVE ConvertMarkdownBold(_)
ConvertMarkdownBold(s) ==
    IF Len(s) < 4 THEN s
    ELSE IF s[1] = "*" /\ s[2] = "*" /\ Closings(s) # {}
    THEN LET j == Min(Closings(s))
         IN smart_replace(SubSeq(s, 3, j - 1)) \o ConvertMarkdownBold(SubSeq(s, j + 2, Len(s)))
    ELSE <<Head(s)>> \o ConvertMarkdownBold(Tail(s))

DefaultTopic == <<"Logistics Tech Update">>
DefaultImagePromptPrefix == <<"Futuristic logistics technology visualization related to ">>

\* generate_full_content after the loop: parsing, emphasis, fallbacks, the dict
ParseContent(raw) ==
    LET topic0 == extract(TOPIC_START, TOPIC_END, raw)
        post0 == ConvertMarkdownBold(extract(POST_START, POST_END, raw))
        prompt0 == extract(IMAGE_PROMPT_START, IMAGE_PROMPT_END, raw)
        topic == IF topic0 = <<>> THEN DefaultTopic ELSE topic0
    IN [topic |-> topic,
        text |-> IF post0 = <<>> THEN raw ELSE post0,
        image_prompt |-> IF prompt0 = <<>> THEN DefaultImagePromptPrefix \o topic ELSE prompt0]

\* Outcomes of one generate_content call: the call raises err, or a response
\* arrives whose .text is a string, or a response arrives whose .text is None
\* (no candidate or no text part), on which .strip() raises AttributeError.
GenOutcome(kind, err, t) == [kind |-> kind, err |-> err, text |-> t]

GenErrors == {"429 RESOURCE_EXHAUSTED", "404 NOT_FOUND"}

GenChars == {"[TOPIC_START]", "[TOPIC_END]", "[POST_START]", "[POST_END]",
             "[IMAGE_PROMPT_START]", "[IMAGE_PROMPT_END]", "a", " ", "*", "\""}

Tagged(topic, post, prompt) ==
    TOPIC_START \o topic \o TOPIC_END \o <<"\n">> \o POST_START \o post \o POST_END
        \o <<"\n">> \o IMAGE_PROMPT_START \o prompt \o IMAGE_PROMPT_END

\* provider responses: the strict format, and short unstructured texts
GenTexts ==
    {Tagged(t, b, i) : t \in {<<"T">>, <<" ">>}, b \in {<<"*", "*", "b", "*", "*">>, <<>>},
                       i \in {<<"i", "\"">>}}
    \cup SeqsUpTo(GenChars, MaxGenLen)

\* one section of a response, in the ways a provider can write it: the pair
\* as prompted, no tag at all, the start tag only, the end tag only, the
\* section written twice
Section(form, tag_start, tag_end, inner) ==
    CASE form = "pair" -> tag_start \o inner \o tag_end
      [] form = "none" -> <<>>
      [] form = "open" -> tag_start \o inner
      [] form = "close" -> inner \o tag_end
      [] form = "twice" -> tag_start \o inner \o tag_end \o tag_start \o inner \o tag_end

SectionForms == {"pair", "none", "open", "close", "twice"}
TopicInners == {<<" ", "T", " ", "t", "\n">>, <<" ">>, <<>>}
PostInners == {<<"\n", "*", "*", "b", "*", "*", " ", "c", " ">>, <<"*", "*", "*", "*">>, <<"\t">>}
PromptInners == {<<"i">>, <<" ", "\n">>}
Preambles == {<<>>, <<"p", "\n">>}

\* responses for the parsing: the three sections in the prompted order, each
\* in any form, after an optional preamble; and the short unstructured texts
ParseTexts ==
    {pre \o Section(ft, TOPIC_START, TOPIC_END, t) \o <<"\n">>
         \o Section(fb, POST_START, POST_END, b) \o <<"\n">>
         \o Section(fi, IMAGE_PROMPT_START, IMAGE_PROMPT_END, i) :
        pre \in Preambles, ft \in SectionForms, t \in TopicInners,
        fb \in SectionForms, b \in PostInners,
        fi \in {"pair", "none", "open"}, i \in PromptInners}
    \cup SeqsUpTo(GenChars, MaxGenLen)

ParseOutcomes == {GenOutcome("text", None, t) : t \in ParseTexts}

GenOutcomes ==
    {GenOutcome("error", e, <<>>) : e \in GenErrors}
    \cup {GenOutcome("no_text", "AttributeError", <<>>)}
    \cup {GenOutcome("text", None, t) : t \in GenTexts}

\* the try body reaches its break exactly when response.text.strip() returned
BreaksNever(kind) == FALSE
Breaks(kind) == kind = "text"

\* the except clause: last_exception = e
KeepFirstException(prev, e) == IF prev = None THEN e ELSE prev
NextLastException(prev, e) == e

NoContent == [topic |-> <<>>, text |-> <<>>, image_prompt |-> <<>>]

\* generate_full_content: one iteration of the loop over model_fallbacks; the
\* last iteration includes the loop's else clause, a break the parsing.
GenerateContent(outcomes) ==
    /\ pc = "generate"
    /\ gen_idx \in 1..Len(model_fallbacks)
    /\ \E out \in outcomes :
         /\ gen_log' = Append(gen_log, [model |-> model_fallbacks[gen_idx],
                                        kind |-> out.kind, err |-> out.err,
                                        text |-> out.text])
         /\ IF Breaks(out.kind)
            THEN /\ content' = ParseContent(Strip(out.text))
                 /\ pc' = "generated"
                 /\ UNCHANGED <<gen_idx, last_exception, error>>
            ELSE /\ last_exception' = NextLastException(last_exception, out.err)
                 /\ gen_idx' = gen_idx + 1
                 /\ UNCHANGED content
                 /\ IF gen_idx = Len(model_fallbacks)
                    THEN /\ pc' = "failed"
                         /\ error' = <<"All models failed. Last error: ", last_exception'>>
                    ELSE UNCHANGED <<pc, error>>
    /\ UNCHANGED <<bold_in, bold_out>>
    /\ UNCHANGED <<publishVars, imgVars, draft_file>>

\* texts for the emphasis conversion: n words on one line, n words on two lines
Words(n) == [i \in 1..(2 * n - 1) |-> IF i % 2 = 1 THEN "w" ELSE " "]
WordsOnTwoLines(n) == [i \in 1..(2 * n - 1) |-> IF i % 2 = 1 THEN "w" ELSE IF i = 2 THEN "\n" ELSE " "]
Span(phrase) == <<"*", "*">> \o phrase \o <<"*", "*">>

BoldChars == {"*", "a", "\n", " "}

\* phrases around the word limit inside other text, phrases that cross a line
\* break, a phrase with characters that have no bold form, two spans in one
\* text, and every short text over asterisk, letter, line break and blank
BoldTexts ==
    {pre \o Span(Words(n)) \o post :
        n \in (MaxBoldWords - 1)..(MaxBoldWords + MaxMoreWords),
        pre \in {<<>>, <<"x", " ">>}, post \in {<<>>, <<" ", "y", "\n">>}}
    \cup {Span(WordsOnTwoLines(n)) : n \in {2, MaxBoldWords}}
    \cup {Span(<<"A", "1", "-", "z", "!">>)}
    \cup {Span(Words(MaxBoldWords)) \o <<" ">> \o Span(Words(MaxBoldWords + 1))}
    \cup SeqsUpTo(BoldChars, MaxBoldLen)

\* _convert_markdown_bold applied to a text, and once more to its own result
ConvertBold ==
    /\ pc = "emphasis"
    /\ Len(bold_out) < 2
    /\ bold_out' = Append(bold_out,
                          ConvertMarkdownBold(IF bold_out = <<>> THEN bold_in
                                              ELSE bold_out[Len(bold_out)]))
    /\ UNCHANGED <<pc, error, bold_in, gen_idx, gen_log, last_exception, content>>
    /\ UNCHANGED <<publishVars, imgVars, draft_file>>

-----------------------------------------------------------------------------
(* modules/image_provider.py: ImageProvider *)

image_models == <<"imagen-3.0-generate-001", "nano-banana-pro-preview">>
SearchLimit == 5

OldBytes == <<"bytes of an earlier run">>
GeminiBytes(i) == <<"gemini image", i>>
DownloadBytes(i) == <<"downloaded image", i>>

\* One attempt as the outside sees it: the source asked, which candidate, and
\* what came back.
Attempt(source, id, resp) == [source |-> source, id |-> id, resp |-> resp]

\* generate_images raises, returns no generated image, or returns one
SynthesisResponses == {"raise", "empty", "images"}
\* requests.get raises, or returns a status
DownloadResponses == {"raise", "200", "404"}

\* a search result is an entry from which result['image'] can be read, or not
ResultLists == SeqsUpTo(BOOLEAN, SearchLimit + MaxExtraResults)
ShortResultLists == SeqsUpTo(BOOLEAN, MaxDraftResults)

\* if response.generated_images
HasImages(resp) == resp = "images"

\* if response.status_code == 200
DownloadOkAny(resp) == resp # "raise"
DownloadOk(resp) == resp = "200"

\* where generate_and_save goes after a synthesis model that produced no file
GiveUpAfterSynthesis(i) == "image_done"
AfterSynthesisFailure(i) == IF i = Len(image_models) THEN "search" ELSE "image"

\* results[:5]
Candidates(r) == SubSeq(r, 1, IF Len(r) < SearchLimit THEN Len(r) ELSE SearchLimit)

\* the inner except clause formats img_url, which is unbound until some
\* result['image'] has been read: the handler itself then raises
HandlerRaises(url) == url = 0

\* generate_and_save step 1: one iteration of the loop over image_models
GenerateImages ==
    /\ pc = "image"
    /\ client
    /\ img_idx \in 1..Len(image_models)
    /\ \E resp \in SynthesisResponses :
         /\ img_log' = Append(img_log, Attempt("synthesis", img_idx, resp))
         /\ IF HasImages(resp) /\ writable
            THEN /\ image_file' = GeminiBytes(img_idx)
                 /\ success' = TRUE
                 /\ pc' = "image_done"
                 /\ UNCHANGED img_idx
            ELSE /\ pc' = AfterSynthesisFailure(img_idx)
                 /\ img_idx' = IF pc' = "image" THEN img_idx + 1 ELSE 1
                 /\ UNCHANGED <<image_file, success>>
    /\ UNCHANGED <<client, img_url, old_file, writable, results>>
    /\ UNCHANGED <<publishVars, genVars, draft_file, error>>

\* _search_via_duckduckgo up to the loop: the search itself
SearchImages(lists) ==
    /\ \/ pc = "image" /\ ~client
       \/ pc = "search"
    /\ \E raised \in BOOLEAN, r \in lists :
         IF raised
         THEN /\ img_log' = Append(img_log, Attempt("search", 0, "raise"))
              /\ pc' = "image_done"
              /\ UNCHANGED results
         ELSE /\ img_log' = Append(img_log, Attempt("search", 0, "results"))
              /\ results' = r
              /\ pc' = IF r = <<>> THEN "image_done" ELSE "download"
    /\ img_idx' = 1
    /\ UNCHANGED <<client, img_url, old_file, writable, image_file, success>>
    /\ UNCHANGED <<publishVars, genVars, draft_file, error>>

\* _search_via_duckduckgo: one iteration of the loop over results[:5]
DownloadCandidate ==
    /\ pc = "download"
    /\ img_idx \in 1..Len(Candidates(results))
    /\ LET last == img_idx = Len(Candidates(results))
           Continue == /\ img_idx' = img_idx + 1
                       /\ pc' = IF last THEN "image_done" ELSE "download"
                       /\ UNCHANGED <<image_file, success>>
       IN IF ~results[img_idx]
          THEN /\ img_log' = Append(img_log, Attempt("candidate", img_idx, "no_url"))
               /\ UNCHANGED img_url
               /\ IF HandlerRaises(img_url)
                  THEN /\ pc' = "image_done"
                       /\ UNCHANGED <<img_idx, image_file, success>>
                  ELSE Continue
          ELSE \E resp \in DownloadResponses :
                 /\ img_log' = Append(img_log, Attempt("candidate", img_idx, resp))
                 /\ img_url' = img_idx
                 /\ IF DownloadOk(resp) /\ writable
                    THEN /\ image_file' = DownloadBytes(img_idx)
                         /\ success' = TRUE
                         /\ pc' = "image_done"
                         /\ UNCHANGED img_idx
                    ELSE Continue
    /\ UNCHANGED <<client, old_file, writable, results>>
    /\ UNCHANGED <<publishVars, genVars, draft_file, error>>

-----------------------------------------------------------------------------
(* main.py: generate_draft *)

\* content['topic'].replace('"', '\\"')
EscapeQuotes(t) == Replace(t, <<"\"">>, <<"\\", "\"">>)

FrontmatterDelimiter == <<"-", "-", "-">>

\* formatted_text
FormattedText(c) ==
    FrontmatterDelimiter \o <<"\n">>
    \o <<"topic: ", "\"">> \o EscapeQuotes(c.topic) \o <<"\"", "\n">>
    \o <<"image_prompt: ", "\"">> \o EscapeQuotes(c.image_prompt) \o <<"\"", "\n">>
    \o FrontmatterDelimiter \o <<"\n">>
    \o c.text \o <<"\n">>

\* after generate_and_save: a false result only prints a warning
RequiresImage(ok) == ok
ProceedsWithoutImage(ok) == TRUE

\* generate_draft between the two calls: the paths, os.makedirs(draft_dir)
\* and the call of generate_and_save on an ImageProvider built without a key
StartImage ==
    /\ pc = "generated"
    /\ pc' = "image"
    /\ UNCHANGED <<publishVars, genVars, imgVars, draft_file, error>>

\* generate_draft step 3: the draft text file
SaveDraft ==
    /\ pc = "image_done"
    /\ IF ProceedsWithoutImage(success)
       THEN /\ draft_file' = FormattedText(content)
            /\ pc' = "draft_done"
            /\ UNCHANGED error
       ELSE /\ pc' = "failed"
            /\ error' = <<"exit(1)">>
            /\ UNCHANGED draft_file
    /\ UNCHANGED <<publishVars, genVars, imgVars>>

-----------------------------------------------------------------------------
(* main.py: publish_post *)

\* open(text_path, 'r').read(): universal newlines turn \r\n and \r into \n
ReadText(file) == Replace(Replace(file, <<"\r", "\n">>, <<"\n">>), <<"\r">>, <<"\n">>)

Max(S) == CHOOSE x \in S : \A y \in S : x >= y

\* ^ under re.MULTILINE: the start of the string or just after a newline
LineStart(s, i) == i = 1 \/ s[i - 1] = "\n"

\* the positions j >= i + 3 at which \n--- stands
Closers(s, i) ==
    {j \in (i + 3)..(Len(s) - 3) :
        s[j] = "\n" /\ SubSeq(s, j + 1, j + 3) = FrontmatterDelimiter}

\* the last position of the match of ^---.*?\n---\s* that begins at i, 0 when
\* there is none: --- at a line start, the nearest \n--- after it (.*? is
\* lazy and, under re.DOTALL, crosses newlines), then all whitespace
HeaderMatchEnd(s, i) ==
    IF ~(LineStart(s, i) /\ i + 2 <= Len(s) /\ SubSeq(s, i, i + 2) = FrontmatterDelimiter)
    THEN 0
    ELSE IF Closers(s, i) = {} THEN 0
    ELSE LET j == Min(Closers(s, i))
         IN Max({k \in (j + 3)..Len(s) : \A m \in (j + 4)..k : s[m] \in Whitespace})

\* the start of the leftmost match at or after p, 0 when there is none
NextHeaderMatch(s, p) ==
    LET starts == {i \in p..Len(s) : HeaderMatchEnd(s, i) # 0}
    IN IF starts = {} THEN 0 ELSE Min(starts)

\* re.split(...)[1]: the piece between the first match and the second match
\* (or the end of the string)
SecondPiece(s) ==
    LET e1 == HeaderMatchEnd(s, NextHeaderMatch(s, 1))
        i2 == NextHeaderMatch(s, e1 + 1)
    IN SubSeq(s, e1 + 1, IF i2 = 0 THEN Len(s) ELSE i2 - 1)

\* content.split("---", 2)[2]: what follows the second delimiter
AfterSecondDelimiter(s) ==
    LET i1 == FirstIndex(s, FrontmatterDelimiter)
        rest == SubSeq(s, i1 + 3, Len(s))
    IN SubSeq(rest, FirstIndex(rest, FrontmatterDelimiter) + 3, Len(rest))

\* publish_post: final_text
FinalText(c) ==
    IF NextHeaderMatch(c, 1) # 0 THEN Strip(SecondPiece(c))
    ELSE IF Len(Split(c, FrontmatterDelimiter)) >= 3 THEN Strip(AfterSecondDelimiter(c))
    ELSE c

\* publish_post up to the construction of the client: the draft of the date
\* is read, the header is removed, the credentials are taken from the
\* environment and the image file is looked for
ReadDraft ==
    /\ pc = "draft_done"
    /\ draft_file # NoFile
    /\ text' = FinalText(ReadText(draft_file))
    /\ \E urn \in AuthorUrns : author_urn' = urn
    /\ image_exists' = (image_file # NoFile)
    /\ pc' = "publish_start"
    /\ UNCHANGED <<requests, responses, reg_info, post_id>>
    /\ UNCHANGED <<genVars, imgVars, draft_file, error>>

\* bodies of up to MaxBodyLines lines: plain, empty, a delimiter line, a line
\* that begins with the delimiter, a line with a carriage return
BodyLines == {<<"a">>, <<>>, FrontmatterDelimiter, FrontmatterDelimiter \o <<"b">>,
              <<"c", "\r", "d">>}

RECURSIVE Bodies(_)
Bodies(n) ==
    IF n = 1 THEN BodyLines
    ELSE Bodies(n - 1) \cup {b \o <<"\n">> \o l : b \in Bodies(n - 1), l \in BodyLines}

\* provider responses in the strict format for the drafts that are read back
RoundTripTexts ==
    {Tagged(t, b, i) :
        t \in {<<"T">>, <<"T", ":", "\"">>, <<"x", "\n">> \o FrontmatterDelimiter \o <<"y">>},
        b \in Bodies(MaxBodyLines),
        i \in {<<"i">>, <<"i", "\n">> \o FrontmatterDelimiter}}

RoundTripOutcomes == {GenOutcome("text", None, t) : t \in RoundTripTexts}

-----------------------------------------------------------------------------
(* main.py: provider outcomes for generate_draft *)

\* the provider outcomes explored in a whole run of generate_draft
DraftTexts ==
    {Tagged(<<"T", "\"">>, <<"*", "*", "b", "*", "*", " ", "c">>, <<"i">>),
     Tagged(<<>>, <<"b">>, <<>>),
     <<"a", " ", "b">>,
     <<>>}

DraftOutcomes ==
    {GenOutcome("error", "429 RESOURCE_EXHAUSTED", <<>>),
     GenOutcome("no_text", "AttributeError", <<>>)}
    \cup {GenOutcome("text", None, t) : t \in DraftTexts}

-----------------------------------------------------------------------------
(* Specifications *)

PublishIdle ==
    /\ author_urn = <<>> /\ text = <<>> /\ image_exists = FALSE
    /\ requests = <<>> /\ responses = <<>> /\ reg_info = NoRegInfo /\ post_id = None
ImageIdle ==
    /\ client = FALSE /\ img_idx = 1 /\ img_url = 0 /\ results = <<>> /\ img_log = <<>>
    /\ image_file = NoFile /\ old_file = NoFile /\ writable = TRUE /\ success = FALSE
GenerateIdle ==
    /\ gen_idx = 1 /\ gen_log = <<>> /\ last_exception = None /\ content = NoContent
    /\ bold_in = <<>> /\ bold_out = <<>>

\* publish_post with a draft text and the configured credentials: the client
\* is constructed and no request has been issued
InitPublish ==
    /\ pc = "publish_start"
    /\ author_urn \in AuthorUrns
    /\ text \in Texts
    /\ image_exists \in BOOLEAN
    /\ requests = <<>> /\ responses = <<>> /\ reg_info = NoRegInfo /\ post_id = None
    /\ error = <<>>
    /\ GenerateIdle
    /\ ImageIdle
    /\ draft_file = NoFile

NextPublish == RegisterImage \/ UploadImage \/ CreatePost

SpecPublish == InitPublish /\ [][NextPublish]_vars

\* create_post is entered: by publish_post for a text-only publish, or as step
\* 3 of post_image_and_text after register and upload returned success
InitCreatePost ==
    /\ author_urn = PersonPrefix \o <<"7">>
    /\ text \in PostTexts
    /\ \/ /\ pc = "publish_start"
          /\ image_exists = FALSE
          /\ requests = <<>> /\ responses = <<>> /\ reg_info = NoRegInfo
       \/ /\ pc = "uploaded"
          /\ image_exists = TRUE
          /\ requests = <<RegisterRequest(author_urn), UploadRequest(UploadUrl)>>
          /\ responses = <<Response(FALSE, 200, TRUE, None, None),
                           Response(FALSE, 201, FALSE, None, None)>>
          /\ reg_info = [uploadUrl |-> UploadUrl, image |-> ImageUrn]
    /\ post_id = None
    /\ error = <<>>
    /\ GenerateIdle
    /\ ImageIdle
    /\ draft_file = NoFile

NextCreatePost == CreatePost

SpecCreatePost == InitCreatePost /\ [][NextCreatePost]_vars

\* _convert_markdown_bold on a body text
InitEmphasis ==
    /\ pc = "emphasis"
    /\ error = <<>>
    /\ PublishIdle
    /\ gen_idx = 1 /\ gen_log = <<>> /\ last_exception = None /\ content = NoContent
    /\ bold_in \in BoldTexts
    /\ bold_out = <<>>
    /\ ImageIdle
    /\ draft_file = NoFile

NextEmphasis == ConvertBold

SpecEmphasis == InitEmphasis /\ [][NextEmphasis]_vars

\* generate_full_content on a constructed ContentGenerator
InitGenerate ==
    /\ pc = "generate"
    /\ error = <<>>
    /\ PublishIdle
    /\ GenerateIdle
    /\ ImageIdle
    /\ draft_file = NoFile

NextGenerate == GenerateContent(GenOutcomes)

SpecGenerate == InitGenerate /\ [][NextGenerate]_vars

\* generate_full_content whose first candidate answers: the parsing of the
\* response text
NextParse == GenerateContent(ParseOutcomes)

SpecParse == InitGenerate /\ [][NextParse]_vars

\* generate_and_save on a constructed ImageProvider, with or without a client
InitImage ==
    /\ pc = "image"
    /\ error = <<>>
    /\ PublishIdle
    /\ GenerateIdle
    /\ client \in BOOLEAN
    /\ image_file \in {NoFile, OldBytes}
    /\ old_file = image_file
    /\ writable \in BOOLEAN
    /\ img_idx = 1 /\ img_url = 0 /\ results = <<>> /\ img_log = <<>> /\ success = FALSE
    /\ draft_file = NoFile

NextImage == GenerateImages \/ SearchImages(ResultLists) \/ DownloadCandidate

SpecImage == InitImage /\ [][NextImage]_vars

\* generate_draft with GEMINI_API_KEY set: the generator and the key-less
\* ImageProvider are constructed, the drafts directory holds no file for today
InitDraft ==
    /\ pc = "generate"
    /\ error = <<>>
    /\ PublishIdle
    /\ GenerateIdle
    /\ ImageIdle
    /\ draft_file = NoFile

NextDraft ==
    \/ GenerateContent(DraftOutcomes)
    \/ StartImage
    \/ SearchImages(ShortResultLists)
    \/ DownloadCandidate
    \/ SaveDraft

SpecDraft == InitDraft /\ [][NextDraft]_vars

\* generate_draft, then publish_post for the same date up to the call of the
\* client; the image search finds nothing
NextRoundTrip ==
    \/ GenerateContent(RoundTripOutcomes)
    \/ StartImage
    \/ SearchImages({<<>>})
    \/ SaveDraft
    \/ ReadDraft

SpecRoundTrip == InitDraft /\ [][NextRoundTrip]_vars

-----------------------------------------------------------------------------
(* Properties of the publish protocol (checked under SpecPublish) *)

IsPrefix(a, b) == Len(a) <= Len(b) /\ SubSeq(b, 1, Len(a)) = a
Kinds(reqs) == [i \in 1..Len(reqs) |-> reqs[i].kind]
SuccessStatus == {200, 201}
Succeeded(resp) == ~resp.raised /\ resp.status \in SuccessStatus
HeaderNames(req) == {h[1] : h \in req.headers}

\* C1: with an image the requests are issued in the order register, binary
\* upload, create-post, each one only after the previous request returned a
\* success status; a text-only publish issues create-post and nothing else.
C1_RequestOrder ==
    /\ image_exists =>
         /\ IsPrefix(Kinds(requests), <<"register", "upload", "create_post">>)
         /\ \A i \in 2..Len(requests) : Succeeded(responses[i - 1])
    /\ ~image_exists => IsPrefix(Kinds(requests), <<"create_post">>)

C1_Witness ==
    /\ image_exists /\ pc = "published"
    /\ Kinds(requests) = <<"register", "upload", "create_post">>

\* C2: each of register, upload and create-post is requested at most once in
\* a publish call, and a step that fails is the last request of the call,
\* which ends with an error: no upload or create-post follows a failed
\* register, no create-post follows a failed upload.
C2_FailureEndsCall ==
    /\ \A i, j \in 1..Len(requests) : i # j => requests[i].kind # requests[j].kind
    /\ \A i \in 1..Len(responses) :
         ~Succeeded(responses[i]) =>
            /\ i = Len(requests)
            /\ pc = "failed"
            /\ error # <<>>
            /\ post_id = None

C2_Witness ==
    /\ pc = "failed" /\ image_exists
    /\ Kinds(requests) = <<"register">>
    /\ ~responses[1].raised /\ responses[1].status = 400

\* C3: the binary upload request never carries the bearer credential (no
\* Authorization header, no header holding the access token), while the
\* register and create-post requests carry it.
C3_UploadWithoutBearer ==
    \A i \in 1..Len(requests) :
        IF requests[i].kind = "upload"
        THEN /\ "Authorization" \notin HeaderNames(requests[i])
             /\ \A h \in requests[i].headers : ~Contains(h[2], <<AccessToken>>)
             /\ requests[i].url = UploadUrl
        ELSE <<"Authorization", <<"Bearer", AccessToken>>>> \in requests[i].headers

C3_Witness ==
    /\ Len(requests) = 3
    /\ requests[2].kind = "upload" /\ requests[2].method = "PUT"

\* C4: the owner sent by register and the author sent by create-post are the
\* same value, which holds no member prefix; a configured member URN is sent
\* as the person URN of the same identifier, and a person URN is sent unchanged.
C4_UrnNormalized ==
    /\ \A i \in 1..Len(requests) :
         requests[i].kind \in {"register", "create_post"} =>
            /\ ~Contains(requests[i].urn, MemberPrefix)
            /\ \A id \in Ids :
                 /\ author_urn = MemberPrefix \o id => requests[i].urn = PersonPrefix \o id
                 /\ author_urn = PersonPrefix \o id => requests[i].urn = author_urn
    /\ Len(requests) = 3 => requests[1].urn = requests[3].urn

C4_Witness ==
    /\ Len(requests) = 3
    /\ \E id \in Ids : author_urn = MemberPrefix \o id
    /\ requests[3].kind = "create_post"

-----------------------------------------------------------------------------
(* Properties of generate_full_content (checked under SpecGenerate) *)

InListOrder ==
    /\ Len(gen_log) <= Len(model_fallbacks)
    /\ \A i \in 1..Len(gen_log) : gen_log[i].model = model_fallbacks[i]

\* C5 as stated: the candidates are requested in list order, each at most
\* once, and a further request is issued only after a request that failed,
\* never after a candidate returned a response.
C5_AdvanceOnlyOnRequestFailure ==
    /\ InListOrder
    /\ \A i \in 1..(Len(gen_log) - 1) : gen_log[i].kind = "error"

\* C5 amended: the candidates are requested in list order, each at most once;
\* a further request is issued only after an attempt that raised (the request
\* failed, or its response carried no text), and none is issued after the
\* first response with text, whatever that text parses to.
C5_AdvanceOnlyOnRaise ==
    /\ InListOrder
    /\ \A i \in 1..(Len(gen_log) - 1) : gen_log[i].kind \in {"error", "no_text"}
    /\ \A i \in 1..Len(gen_log) :
         gen_log[i].kind = "text" => i = Len(gen_log) /\ pc = "generated"

C5_Witness ==
    /\ pc = "generated"
    /\ Len(gen_log) = 3
    /\ gen_log[3].kind = "text"
    /\ content.topic = DefaultTopic

\* C6: the call fails exactly when every candidate failed; the error raised
\* then carries the error of the last candidate of the list, and no content
\* is returned.
C6_FailsWithLastError ==
    /\ pc = "failed" <=>
         /\ Len(gen_log) = Len(model_fallbacks)
         /\ \A i \in 1..Len(gen_log) : gen_log[i].kind # "text"
    /\ pc = "failed" =>
         /\ error = <<"All models failed. Last error: ", gen_log[Len(model_fallbacks)].err>>
         /\ content = NoContent

C6_Witness ==
    /\ pc = "failed"
    /\ gen_log[1].err # gen_log[Len(model_fallbacks)].err

-----------------------------------------------------------------------------
(* Properties of generate_and_save (checked under SpecImage) *)

\* an attempt succeeded: it obtained bytes and save_path could be written
AttemptOk(a) == a.resp \in {"images", "200"} /\ writable
SourceBytes(a) == IF a.source = "synthesis" THEN GeminiBytes(a.id) ELSE DownloadBytes(a.id)
Attempted(source) == {img_log[i].id : i \in {j \in 1..Len(img_log) : img_log[j].source = source}}
ReturnedFalse == pc = "image_done" /\ ~success

\* C7: when the attempts before the k-th fail and the k-th succeeds, the call
\* returns true, the destination holds exactly the k-th attempt's bytes and
\* nothing is attempted after it; while every attempt has failed the
\* destination is as it was before the call and the result is false.
C7_FirstSuccessWins ==
    /\ \A i \in 1..Len(img_log) :
         AttemptOk(img_log[i]) =>
            /\ i = Len(img_log)
            /\ pc = "image_done" /\ success
            /\ image_file = SourceBytes(img_log[i])
    /\ (pc = "image_done" /\ success) =>
         Len(img_log) > 0 /\ AttemptOk(img_log[Len(img_log)])
    /\ (\A i \in 1..Len(img_log) : ~AttemptOk(img_log[i])) =>
         image_file = old_file /\ ~success

C7_Witness ==
    /\ pc = "image_done" /\ success /\ client
    /\ old_file = OldBytes
    /\ Len(img_log) = 5
    /\ img_log[5] = Attempt("candidate", 2, "200")
    /\ image_file = DownloadBytes(2)

\* C8: generate_and_save never raises, and a failure of one candidate is that
\* candidate's failure only: false is returned only after every synthesis
\* model (with a client), the search, and every one of the first five search
\* results has been attempted.
C8_FailureIsLocal ==
    /\ pc # "failed" /\ error = <<>>
    /\ ReturnedFalse =>
         /\ client => Attempted("synthesis") = 1..Len(image_models)
         /\ Attempted("search") = {0}
         /\ Attempted("candidate") = 1..Len(Candidates(results))

\* the downloads attempted by the image search, in order
IsCandidate(a) == a.source = "candidate"
CandidateLog == SelectSeq(img_log, IsCandidate)

\* C20: the image search tries at most the first 5 results, in result order;
\* a candidate that fails in any way (status other than 200, transport error,
\* no URL in the result entry) is followed by the next one, the first 200
\* response ends the search with its bytes written, and false is returned
\* only after every one of the (up to 5) candidates has been attempted.
C20_SearchTriesEachCandidate ==
    /\ Len(CandidateLog) <= 5
    /\ \A i \in 1..Len(CandidateLog) : CandidateLog[i].id = i
    /\ \A i \in 1..Len(CandidateLog) :
         (CandidateLog[i].resp = "200" /\ writable) =>
            /\ i = Len(CandidateLog)
            /\ pc = "image_done" /\ success
            /\ image_file = DownloadBytes(i)
    /\ (ReturnedFalse /\ results # <<>>) =>
         Len(CandidateLog) = (IF Len(results) < 5 THEN Len(results) ELSE 5)

\* C9 as stated: the chain is synthesis, web search, URL-based generative
\* service, and false is returned only after each has been attempted; the
\* URL-based service is requested before false is returned.
C9_UrlServiceBeforeFalse ==
    ReturnedFalse =>
        /\ Attempted("search") # {}
        /\ Attempted("url_service") # {}

SourceRank(source) ==
    CASE source = "synthesis" -> 1
      [] source = "search" -> 2
      [] source = "candidate" -> 3
      [] OTHER -> 4

\* C9 amended: the chain is synthesis (only with a client, every model in
\* list order) and then web search with its downloads; false is returned only
\* after every configured synthesis model and the search have been attempted
\* and have failed, and no other image service is ever requested.
C9_ChainOrder ==
    /\ \A i, j \in 1..Len(img_log) :
         i < j => SourceRank(img_log[i].source) <= SourceRank(img_log[j].source)
    /\ \A i \in 1..Len(img_log) : SourceRank(img_log[i].source) <= 3
    /\ ~client => Attempted("synthesis") = {}
    /\ ReturnedFalse =>
         /\ client => /\ Len(img_log) > Len(image_models)
                      /\ \A i \in 1..Len(image_models) :
                           img_log[i].source = "synthesis" /\ img_log[i].id = i
         /\ Attempted("search") = {0}
         /\ \A i \in 1..Len(img_log) : ~AttemptOk(img_log[i])

C9_Witness ==
    /\ ReturnedFalse /\ client
    /\ Len(img_log) = 3
    /\ img_log[3] = Attempt("search", 0, "results")
    /\ results = <<>>

-----------------------------------------------------------------------------
(* Properties of generate_draft (checked under SpecDraft) *)

GenerationFailed ==
    /\ Len(gen_log) = Len(model_fallbacks)
    /\ \A i \in 1..Len(gen_log) : gen_log[i].kind # "text"

\* C10: a false result of generate_and_save does not fail generate_draft: the
\* run can go on, and it ends with a draft text file holding the generated
\* topic, image prompt and body; the run fails only when text generation
\* failed, and then no draft file has been written and no image requested.
C10_ProceedsWithoutImage ==
    /\ ReturnedFalse => ENABLED SaveDraft /\ error = <<>>
    /\ pc = "draft_done" =>
         /\ error = <<>>
         /\ draft_file # NoFile
         /\ Contains(draft_file, <<"topic: ", "\"">> \o EscapeQuotes(content.topic) \o <<"\"", "\n">>)
         /\ Contains(draft_file, <<"image_prompt: ", "\"">>
                                     \o EscapeQuotes(content.image_prompt) \o <<"\"", "\n">>)
         /\ Contains(draft_file, FrontmatterDelimiter \o <<"\n">> \o content.text \o <<"\n">>)
         /\ content.topic # <<>> /\ content.image_prompt # <<>>
    /\ pc = "failed" =>
         /\ GenerationFailed
         /\ draft_file = NoFile
         /\ img_log = <<>> /\ image_file = NoFile
    /\ draft_file # NoFile => pc = "draft_done"

C10_Witness ==
    /\ pc = "draft_done" /\ ~success
    /\ Len(img_log) = 3
    /\ img_log[3].resp = "404"
    /\ draft_file # NoFile
    /\ image_file = NoFile

-----------------------------------------------------------------------------
(* Properties of the response parsing (checked under SpecParse) *)

Parsed == pc = "generated"

\* the text the parsing works on: content = response.text.strip()
Raw == Strip(gen_log[Len(gen_log)].text)

Occurrences(s, tag) == {i \in 1..Len(s) : s[i] = tag[1]}
Has(s, tag) == Occurrences(s, tag) # {}
Pos(s, tag) == CHOOSE i \in Occurrences(s, tag) : TRUE

\* a well-formed pair: each tag exactly once, the start tag before the end tag
WellFormed(s, tag_start, tag_end) ==
    /\ Cardinality(Occurrences(s, tag_start)) = 1
    /\ Cardinality(Occurrences(s, tag_end)) = 1
    /\ Pos(s, tag_start) < Pos(s, tag_end)

AllWellFormed(s) ==
    /\ WellFormed(s, TOPIC_START, TOPIC_END)
    /\ WellFormed(s, POST_START, POST_END)
    /\ WellFormed(s, IMAGE_PROMPT_START, IMAGE_PROMPT_END)

\* the substring a well-formed pair encloses, trimmed
Enclosed(s, tag_start, tag_end) ==
    Strip(SubSeq(s, Pos(s, tag_start) + 1, Pos(s, tag_end) - 1))

OrElse(value, default) == IF value = <<>> THEN default ELSE value

\* C11 as stated: for a response with all three well-formed tag pairs, topic
\* and image prompt are exactly the trimmed enclosed substrings and the body
\* is the trimmed enclosed substring after emphasis normalization.
C11_ExactlyEnclosed ==
    (Parsed /\ AllWellFormed(Raw)) =>
        /\ content.topic = Enclosed(Raw, TOPIC_START, TOPIC_END)
        /\ content.image_prompt = Enclosed(Raw, IMAGE_PROMPT_START, IMAGE_PROMPT_END)
        /\ content.text = ConvertMarkdownBold(Enclosed(Raw, POST_START, POST_END))

\* C11 amended: for a response with all three well-formed tag pairs, a field
\* whose delimited value is not empty is returned as that value (topic and
\* image prompt: the trimmed enclosed substring; body: the trimmed enclosed
\* substring after emphasis normalization), and a field whose delimited value
\* is empty receives its default (the placeholder topic, the whole response,
\* the prompt template with the returned topic).
C11_EnclosedOrDefault ==
    (Parsed /\ AllWellFormed(Raw)) =>
        /\ content.topic = OrElse(Enclosed(Raw, TOPIC_START, TOPIC_END), DefaultTopic)
        /\ content.image_prompt =
               OrElse(Enclosed(Raw, IMAGE_PROMPT_START, IMAGE_PROMPT_END),
                      DefaultImagePromptPrefix \o content.topic)
        /\ content.text =
               OrElse(ConvertMarkdownBold(Enclosed(Raw, POST_START, POST_END)), Raw)

C11_Witness ==
    /\ Parsed
    /\ AllWellFormed(Raw)
    /\ StartsWith(Raw, <<"p">>)
    /\ content.topic = <<"T", " ", "t">>
    /\ content.text = <<"bold-b", " ", "c">>
    /\ content.image_prompt = <<"i">>

\* a missing or malformed pair: the start tag absent, or the start tag present
\* with its end tag absent
Missing(s, tag_start, tag_end) == ~Has(s, tag_start) \/ ~Has(s, tag_end)

SomeMissing(s) ==
    \/ Missing(s, TOPIC_START, TOPIC_END)
    \/ Missing(s, POST_START, POST_END)
    \/ Missing(s, IMAGE_PROMPT_START, IMAGE_PROMPT_END)

\* C12: in a response with a tag pair missing or malformed (start tag absent,
\* or start tag present and end tag absent) each such field receives its
\* default (placeholder topic, whole response, prompt template with the
\* returned topic) and each field whose pair is present is returned as
\* delimited.
C12_MissingGetsDefault ==
    (Parsed /\ SomeMissing(Raw)) =>
        /\ Missing(Raw, TOPIC_START, TOPIC_END) => content.topic = DefaultTopic
        /\ Missing(Raw, POST_START, POST_END) => content.text = Raw
        /\ Missing(Raw, IMAGE_PROMPT_START, IMAGE_PROMPT_END) =>
               content.image_prompt = DefaultImagePromptPrefix \o content.topic
        /\ WellFormed(Raw, TOPIC_START, TOPIC_END) =>
               content.topic = OrElse(Enclosed(Raw, TOPIC_START, TOPIC_END), DefaultTopic)
        /\ WellFormed(Raw, POST_START, POST_END) =>
               content.text =
                   OrElse(ConvertMarkdownBold(Enclosed(Raw, POST_START, POST_END)), Raw)
        /\ WellFormed(Raw, IMAGE_PROMPT_START, IMAGE_PROMPT_END) =>
               content.image_prompt =
                   OrElse(Enclosed(Raw, IMAGE_PROMPT_START, IMAGE_PROMPT_END),
                          DefaultImagePromptPrefix \o content.topic)

Markers ==
    {TOPIC_START[1], TOPIC_END[1], POST_START[1], POST_END[1],
     IMAGE_PROMPT_START[1], IMAGE_PROMPT_END[1]}

\* C13: the returned body contains none of the six section markers, also
\* when it falls back to the whole response.
C13_BodyWithoutMarkers ==
    Parsed => \A i \in 1..Len(content.text) : content.text[i] \notin Markers

\* C14: every returned content has a non-empty topic, a non-empty body and a
\* non-empty image prompt.
C14_FieldsNonEmpty ==
    Parsed => content.topic # <<>> /\ content.text # <<>> /\ content.image_prompt # <<>>

-----------------------------------------------------------------------------
(* Properties of create_post (checked under SpecCreatePost and SpecPublish) *)

\* the create-post request has been issued; the commentary it carries
Posted == requests # <<>> /\ requests[Len(requests)].kind = "create_post"
Sent == requests[Len(requests)].commentary
Answer == responses[Len(responses)]

DefectList == {"(", ")", "[", "]", "{", "}", "<", ">", "@", "|", "~", "_"}

\* what one character of the input is transmitted as
TransmittedChar(c) ==
    IF c \in DefectList THEN <<"\\", c>>
    ELSE IF c \in {EmDash, EnDash} THEN <<"-">>
    ELSE IF c = "\r" THEN <<"\n">>
    ELSE <<c>>

\* the sanitized text: every character as transmitted, a carriage return and
\* line feed pair being one line ending (the text is taken by halves, never
\* divided inside such a pair)
RECURSIVE TransmittedText(_)
TransmittedText(s) ==
    IF s = <<>> THEN <<>>
    ELSE IF Len(s) = 1 THEN TransmittedChar(s[1])
    ELSE IF s = <<"\r", "\n">> THEN <<"\n">>
    ELSE LET h == Len(s) \div 2
             m == IF s[h] = "\r" /\ s[h + 1] = "\n" THEN h + 1 ELSE h
         IN TransmittedText(SubSeq(s, 1, m)) \o TransmittedText(SubSeq(s, m + 1, Len(s)))

EndsWith(s, p) == Len(s) >= Len(p) /\ SubSeq(s, Len(s) - Len(p) + 1, Len(s)) = p

\* C15: the commentary is the sanitized text when that has at most 3000
\* characters, and otherwise its first 2900 characters followed by the
\* continuation marker; it never exceeds 3000 characters, the call fails only
\* on the answer to its request, and a plain text of 3500 characters is sent
\* with at most 2900 characters plus the marker and ends with the marker.
C15_TruncatedAtLimit ==
    Posted =>
        LET s == TransmittedText(text)
        IN /\ Len(s) <= 3000 => Sent = s
           /\ Len(s) > 3000 => Sent = SubSeq(s, 1, 2900) \o ContinuationMarker
           /\ Len(Sent) <= 3000
           /\ pc = "failed" => ~Succeeded(Answer)
           /\ text = Repeat("a", 3500) =>
                  /\ Len(Sent) <= 2900 + Len(ContinuationMarker)
                  /\ EndsWith(Sent, ContinuationMarker)

C15_Witness ==
    /\ pc = "published"
    /\ text = Repeat("(", 1501)
    /\ Len(Sent) = 2926
    /\ EndsWith(Sent, ContinuationMarker)

\* C16 as stated: for every text, with or without an image, every character
\* of the defect list is transmitted preceded by exactly one added backslash
\* and every other character as it is, apart from line endings (one line feed
\* each) and typographic dashes (a hyphen each); the commentary contains no
\* carriage return and no typographic dash.
C16_EveryTextTransmitted ==
    Posted =>
        /\ Sent = TransmittedText(text)
        /\ \A i \in 1..Len(Sent) : Sent[i] \notin {"\r", EmDash, EnDash}

\* C16 amended: the same for every text whose sanitized form has at most 3000
\* characters (a longer one is cut, so characters of the input are dropped);
\* no commentary, cut or not, contains a carriage return or a typographic
\* dash.
C16_EscapedAndNormalized ==
    Posted =>
        /\ Len(TransmittedText(text)) <= 3000 => Sent = TransmittedText(text)
        /\ \A i \in 1..Len(Sent) : Sent[i] \notin {"\r", EmDash, EnDash}

C16_Witness ==
    /\ pc = "published"
    /\ image_exists
    /\ text = <<"\r", "(">>
    /\ Sent = <<"\n", "\\", "(">>

\* C17: once the create-post request returned a success status the call
\* returns: x-restli-id when present and not empty, otherwise x-linkedin-id
\* when present, otherwise the sentinel; 201 with x-restli-id abc123 yields
\* abc123.
C17_PostIdFromHeaders ==
    (Posted /\ Len(responses) = Len(requests) /\ Succeeded(Answer)) =>
        /\ pc = "published"
        /\ error = <<>>
        /\ post_id = IF Answer.restli \notin {None, ""} THEN Answer.restli
                     ELSE IF Answer.linkedin # None THEN Answer.linkedin
                     ELSE "Unknown ID"
        /\ (Answer.status = 201 /\ Answer.restli = "abc123") => post_id = "abc123"

C17_Witness ==
    /\ pc = "published"
    /\ image_exists
    /\ Answer.status = 201
    /\ Answer.restli = "abc123"
    /\ post_id = "abc123"

\* C21: in every commentary, cut or not, every character of the defect list
\* is immediately preceded by a backslash, and the cut at 2900 does not part
\* an added backslash from the character it escapes.
C21_EscapesIntact ==
    Posted =>
        /\ \A i \in 1..Len(Sent) :
              Sent[i] \in DefectList => i > 1 /\ Sent[i - 1] = "\\"
        /\ Len(TransmittedText(text)) > 3000 =>
              ~(/\ TransmittedText(text)[2900] = "\\"
                /\ TransmittedText(text)[2901] \in DefectList)

-----------------------------------------------------------------------------
(* Properties of the emphasis conversion (checked under SpecEmphasis) *)

Converted == Len(bold_out) >= 1
ConvertedTwice == Len(bold_out) = 2

Asterisks(s) == {i \in 1..Len(s) : s[i] = "*"}

\* a text with exactly one double-asterisk span: its asterisks are the two of
\* the opening marker and the two of the closing marker
OneSpan(s) ==
    /\ Cardinality(Asterisks(s)) = 4
    /\ LET p == Min(Asterisks(s))
           q == Min(Asterisks(s) \ {p, p + 1})
       IN Asterisks(s) = {p, p + 1, q, q + 1}

SpanOpen(s) == Min(Asterisks(s))
SpanClose(s) == Min(Asterisks(s) \ {SpanOpen(s), SpanOpen(s) + 1})
Phrase(s) == SubSeq(s, SpanOpen(s) + 2, SpanClose(s) - 1)

\* the number of whitespace-separated words of a phrase
WordStarts(s) ==
    {i \in 1..Len(s) : s[i] \notin Whitespace /\ (i = 1 \/ s[i - 1] \in Whitespace)}

\* C18: a span whose phrase has at most 20 words has its letters and digits
\* replaced by their bold forms and its markers dropped, a span whose phrase
\* has 21 or more words has only its markers dropped, and the text outside
\* the span is unchanged.
C18_BoldUpToTwentyWords ==
    Converted =>
        /\ Asterisks(bold_in) = {} => bold_out[1] = bold_in
        /\ OneSpan(bold_in) =>
               bold_out[1] =
                   SubSeq(bold_in, 1, SpanOpen(bold_in) - 1)
                   \o (IF Cardinality(WordStarts(Phrase(bold_in))) <= 20
                       THEN Translate(Phrase(bold_in))
                       ELSE Phrase(bold_in))
                   \o SubSeq(bold_in, SpanClose(bold_in) + 2, Len(bold_in))

\* C19: the output of the conversion contains no asterisk, and converting the
\* output again returns it unchanged.
C19_NoAsteriskIdempotent ==
    /\ Converted => Asterisks(bold_out[1]) = {}
    /\ ConvertedTwice => bold_out[2] = bold_out[1]

-----------------------------------------------------------------------------
(* Properties of the draft round trip (checked under SpecRoundTrip) *)

\* the draft has been read back and its text is about to go to the client
ReadBack == pc = "publish_start"

\* C22: the text publish_post hands to the client is exactly the body that
\* generate_draft wrote, with surrounding whitespace trimmed, also when the
\* body has lines that begin with --- or the topic or the image prompt
\* contains the delimiter.
C22_RoundTrip ==
    ReadBack => text = Strip(content.text)

====
